---- MODULE Spec2Model ----
(***************************************************************************)
(* wopr-plugin-soul: the SOUL.md persona file, resolved from a global and  *)
(* a session tier, read by soul.get and the soul context provider, edited  *)
(* by soul.update, and the plugin's init/shutdown lifecycle.               *)
(*                                                                         *)
(* A JavaScript string is a sequence of one-character strings, so that the *)
(* regular expression of soul.update and String.prototype.replace work on  *)
(* characters.  A path is the sequence of its segments.                    *)
(***************************************************************************)
EXTENDS FiniteSets, Integers, Sequences, TLC

VARIABLES
    fs,           \* the file system: path -> file
    env,          \* process.env: WOPR_HOME and WOPR_GLOBAL_IDENTITY
    toolsMod,     \* module constants of soul-a2a-tools.ts, set at import
    providerMod,  \* module constants of soul-context-provider.ts, set at import
    result,       \* the last call and what it returned or threw
    ncalls,       \* number of calls made so far
    ctx,          \* index.ts: the plugin context handle, or null
    cleanups,     \* index.ts: pending cleanup callbacks
    host,         \* the host's registries, as changed by the last lifecycle call
    pc,           \* two processes running soul.update: position of each
    local         \* two processes running soul.update: locals of each

vars == <<fs, env, toolsMod, providerMod, result, ncalls, ctx, cleanups, host, pc, local>>

fileVars == <<fs, env, toolsMod, providerMod, result, ncalls>>
lifeVars == <<ctx, cleanups, host>>
raceVars == <<pc, local>>

-----------------------------------------------------------------------------
(* Bounds *)

MaxCalls == 2      \* calls of the tools and the provider in one behaviour
MaxDocLen == 48    \* longest document an update may write
MaxLifeCalls == 4  \* init/shutdown calls in one behaviour

-----------------------------------------------------------------------------
(* JavaScript values *)

\* undefined: an argument that was not passed, an environment variable not set
None == <<"undefined">>

\* a value is truthy unless it is undefined or the empty string
Truthy(v) == v # None /\ v # <<>>

\* a || b
OrElse(a, b) == IF Truthy(a) THEN a ELSE b

Backtick == "<backtick>"

Whitespace == {" ", "\n", "\t", "\r"}

LowerLetters == <<"a", "b", "c", "d", "e", "f", "g", "h", "i", "j", "k", "l", "m",
                  "n", "o", "p", "q", "r", "s", "t", "u", "v", "w", "x", "y", "z">>
UpperLetters == <<"A", "B", "C", "D", "E", "F", "G", "H", "I", "J", "K", "L", "M",
                  "N", "O", "P", "Q", "R", "S", "T", "U", "V", "W", "X", "Y", "Z">>

\* the case folding of the "i" flag: a lower-case letter is its upper-case
\* letter, any other character is itself
UpperOf ==
    [c \in {LowerLetters[k] : k \in 1..26} |->
        UpperLetters[CHOOSE k \in 1..26 : LowerLetters[k] = c]]

Canonicalize(c) == IF c \in DOMAIN UpperOf THEN UpperOf[c] ELSE c

SubStr(t, from, to) == [k \in 1..(to - from + 1) |-> t[from + k - 1]]

StartsWithAt(t, i, p) ==
    /\ i + Len(p) - 1 <= Len(t)
    /\ \A k \in 1..Len(p) : t[i + k - 1] = p[k]

\* String.prototype.trim
RECURSIVE trimStart(_)
trimStart(t) ==
    IF t # <<>> /\ Head(t) \in Whitespace THEN trimStart(Tail(t)) ELSE t

RECURSIVE trimEnd(_)
trimEnd(t) ==
    IF t # <<>> /\ t[Len(t)] \in Whitespace THEN trimEnd(SubStr(t, 1, Len(t) - 1)) ELSE t

trimIdentity(t) == t
trim(t) == trimEnd(trimStart(t))

-----------------------------------------------------------------------------
(* Paths and the file system *)

join(dir, name) == dir \o <<name>>

homedir == <<"~">>

AltHome == <<"/alt/wopr">>
AltGlobal == <<"/alt/identity">>

SessionNames == {"s1", "s2"}

EnvChoices == [WOPR_HOME : {None, AltHome}, WOPR_GLOBAL_IDENTITY : {None, AltGlobal}]

\* the three module-level constants, computed when a module is imported
ModuleConstants(e) ==
    LET home == OrElse(e.WOPR_HOME, join(homedir, "wopr"))
    IN  [WOPR_HOME |-> home,
         SESSIONS_DIR |-> join(home, "sessions"),
         GLOBAL_IDENTITY_DIR |-> OrElse(e.WOPR_GLOBAL_IDENTITY, <<"/data/identity">>)]

GlobalPathOf(m) == join(m.GLOBAL_IDENTITY_DIR, "SOUL.md")
SessionPathOf(m, s) == join(join(m.SESSIONS_DIR, s), "SOUL.md")

Paths ==
    {GlobalPathOf(ModuleConstants(e)) : e \in EnvChoices}
    \cup {SessionPathOf(ModuleConstants(e), s) : e \in EnvChoices, s \in SessionNames}

Absent == [exists |-> FALSE, readable |-> FALSE, content |-> <<>>]
FileOf(c) == [exists |-> TRUE, readable |-> TRUE, content |-> c]
Unreadable(c) == [exists |-> TRUE, readable |-> FALSE, content |-> c]

existsSync(f, p) == f[p].exists

\* readFileSync throws when the file cannot be read
readFileSync(f, p) ==
    IF f[p].exists /\ f[p].readable
    THEN [ok |-> TRUE, data |-> f[p].content]
    ELSE [ok |-> FALSE, data |-> <<>>]

\* writeFileSync creates the file or replaces its content
writeFileSync(f, p, data) ==
    [f EXCEPT ![p] = [exists |-> TRUE,
                      readable |-> IF @.exists THEN @.readable ELSE TRUE,
                      content |-> data]]

-----------------------------------------------------------------------------
(* soul-a2a-tools.ts: resolution and soul.get *)

\* what a handler did: returned a value or threw
Returned(v) == [outcome |-> "returned", value |-> v]
Threw == [outcome |-> "threw", value |-> [error |-> "Error"]]

\* the tool-result envelope { content: [{ type: "text", text }] }
ToolResult(text) == [content |-> <<[type |-> "text", text |-> text]>>]

resolveRootFileSessionFirst(f, m, sessionDir, filename) ==
    LET globalPath == join(m.GLOBAL_IDENTITY_DIR, filename)
        sessionPath == join(sessionDir, filename)
    IN  IF existsSync(f, sessionPath)
        THEN [path |-> sessionPath, exists |-> TRUE, isGlobal |-> FALSE]
        ELSE IF existsSync(f, globalPath)
        THEN [path |-> globalPath, exists |-> TRUE, isGlobal |-> TRUE]
        ELSE [path |-> sessionPath, exists |-> FALSE, isGlobal |-> FALSE]

\* as if the directories were read from process.env at the time of the call
resolveRootFileFromEnv(f, m, sessionDir, filename) ==
    LET now == ModuleConstants(env)
        globalPath == join(now.GLOBAL_IDENTITY_DIR, filename)
        sessionPath == join(join(now.SESSIONS_DIR, sessionDir[Len(sessionDir)]), filename)
    IN  IF existsSync(f, globalPath)
        THEN [path |-> globalPath, exists |-> TRUE, isGlobal |-> TRUE]
        ELSE IF existsSync(f, sessionPath)
        THEN [path |-> sessionPath, exists |-> TRUE, isGlobal |-> FALSE]
        ELSE [path |-> sessionPath, exists |-> FALSE, isGlobal |-> FALSE]

resolveRootFile(f, m, sessionDir, filename) ==
    LET globalPath == join(m.GLOBAL_IDENTITY_DIR, filename)
        sessionPath == join(sessionDir, filename)
    IN  IF existsSync(f, globalPath)
        THEN [path |-> globalPath, exists |-> TRUE, isGlobal |-> TRUE]
        ELSE IF existsSync(f, sessionPath)
        THEN [path |-> sessionPath, exists |-> TRUE, isGlobal |-> FALSE]
        ELSE [path |-> sessionPath, exists |-> FALSE, isGlobal |-> FALSE]

NoResolved == [path |-> <<>>, exists |-> FALSE, isGlobal |-> FALSE]
NoWrite == [path |-> <<>>, data |-> None]
NoArgs == [content |-> None, section |-> None, sectionContent |-> None]

\* the handler of soul.get: the resolution, and what it returns or throws
soulGet(f, m, sessionName) ==
    LET sessionDir == join(m.SESSIONS_DIR, sessionName)
        resolved == resolveRootFile(f, m, sessionDir, "SOUL.md")
        read == readFileSync(f, resolved.path)
    IN  [resolved |-> resolved,
         ret |-> IF ~resolved.exists
                 THEN Returned(ToolResult(<<"No SOUL.md found.">>))
                 ELSE IF ~read.ok
                 THEN Threw
                 ELSE Returned(ToolResult(
                        <<"[Source: ", IF resolved.isGlobal THEN "global" ELSE "session", "]\n\n">>
                        \o read.data))]

-----------------------------------------------------------------------------
(* soul-context-provider.ts *)

Null == [null |-> TRUE]

Fragment(label, content, location) ==
    [content |-> <<label>> \o content,
     role |-> "system",
     metadata |-> [source |-> "soul", priority |-> 8, location |-> location]]

\* one tier of getContext: the fragment, or Null when the file is missing,
\* the read throws (caught) or the content is blank
TierContext(f, path, label, location) ==
    IF existsSync(f, path)
    THEN LET read == readFileSync(f, path)
         IN  IF read.ok /\ Truthy(trim(read.data))
             THEN Fragment(label, read.data, location)
             ELSE Null
    ELSE Null

getContext(f, m, session) ==
    LET globalPath == join(m.GLOBAL_IDENTITY_DIR, "SOUL.md")
        sessionPath == join(join(m.SESSIONS_DIR, session), "SOUL.md")
        fromGlobal == TierContext(f, globalPath, "## Soul (Global)\n\n", "global")
    IN  IF fromGlobal # Null
        THEN Returned(fromGlobal)
        ELSE Returned(TierContext(f, sessionPath, "## Soul\n\n", "session"))

-----------------------------------------------------------------------------
(* soul-a2a-tools.ts: the section edit of soul.update *)

DefaultDocument ==
    <<"#", " ", "S", "O", "U", "L", ".", "m", "d", " ", "-", " ", "P", "e", "r", "s",
      "o", "n", "a", " ", "&", " ", "B", "o", "u", "n", "d", "a", "r", "i", "e", "s",
      "\n", "\n">>

\* the characters of the class [.*+?^${}()|[\]\\]
RegexMeta == {".", "*", "+", "?", "^", "$", "{", "}", "(", ")", "|", "[", "]", "\\"}

\* section.replace(/[.*+?^${}()|[\]\\]/g, "\\$&"): a backslash before each
\* metacharacter
RECURSIVE safeSection(_)
safeSection(section) ==
    IF section = <<>>
    THEN <<>>
    ELSE (IF Head(section) \in RegexMeta THEN <<"\\", Head(section)>> ELSE <<Head(section)>>)
         \o safeSection(Tail(section))

\* the atoms of a pattern source as the regular expression compiler reads
\* them: backslash-character is that character, an unescaped dot is any
\* character but a line terminator, any other character is itself (the other
\* metacharacters never reach the compiler unescaped)
RECURSIVE PatternAtoms(_)
PatternAtoms(src) ==
    IF src = <<>>
    THEN <<>>
    ELSE IF Head(src) = "\\" /\ Len(src) >= 2
    THEN <<[kind |-> "char", ch |-> src[2]]>> \o PatternAtoms(Tail(Tail(src)))
    ELSE IF Head(src) = "."
    THEN <<[kind |-> "any", ch |-> "."]>> \o PatternAtoms(Tail(src))
    ELSE <<[kind |-> "char", ch |-> Head(src)]>> \o PatternAtoms(Tail(src))

\* new RegExp(`## ${safeSection}[\s\S]*?(?=\n## |$)`, "i"): the atoms of
\* `## ${safeSection}`; the lazy tail and the lookahead are in RegExpExec
sectionRegex(section) == PatternAtoms(<<"#", "#", " ">> \o safeSection(section))

AtomMatches(a, c) ==
    IF a.kind = "any"
    THEN c \notin {"\n", "\r"}
    ELSE Canonicalize(a.ch) = Canonicalize(c)

MatchesAt(t, i, atoms) ==
    /\ i + Len(atoms) - 1 <= Len(t)
    /\ \A k \in 1..Len(atoms) : AtomMatches(atoms[k], t[i + k - 1])

\* the lookahead (?=\n## |$) at position j; $ without the m flag is the end
\* of the text
LookaheadAt(t, j) == j = Len(t) + 1 \/ StartsWithAt(t, j, <<"\n", "#", "#", " ">>)

\* the leftmost match: it starts at the first position where the atoms
\* match and, the tail being lazy, ends before the first position at or after
\* the atoms where the lookahead holds.  from..to is the matched span
\* (to = from - 1 + length)
RegExpExec(t, atoms) ==
    LET starts == {i \in 1..Len(t) : MatchesAt(t, i, atoms)}
    IN  IF starts = {}
        THEN [found |-> FALSE, from |-> 0, to |-> 0]
        ELSE LET from == CHOOSE i \in starts : \A k \in starts : i <= k
                 ends == {j \in (from + Len(atoms))..(Len(t) + 1) : LookaheadAt(t, j)}
                 end == CHOOSE j \in ends : \A k \in ends : j <= k
             IN  [found |-> TRUE, from |-> from, to |-> end - 1]

\* GetSubstitution: $$ is a dollar, $& the match, $` the text before it,
\* $' the text after it; with no capture groups any other $ is literal
RECURSIVE GetSubstitution(_, _, _, _)
GetSubstitution(replacement, matched, before, after) ==
    IF replacement = <<>>
    THEN <<>>
    ELSE IF Head(replacement) = "$" /\ Len(replacement) >= 2
            /\ replacement[2] \in {"$", "&", Backtick, "'"}
    THEN (CASE replacement[2] = "$" -> <<"$">>
            [] replacement[2] = "&" -> matched
            [] replacement[2] = Backtick -> before
            [] replacement[2] = "'" -> after)
         \o GetSubstitution(Tail(Tail(replacement)), matched, before, after)
    ELSE <<Head(replacement)>> \o GetSubstitution(Tail(replacement), matched, before, after)

\* existing.replace(sectionRegex, newSection): the first match is replaced by
\* the expansion of the replacement string
StringReplace(t, atoms, replacement) ==
    LET m == RegExpExec(t, atoms)
        before == SubStr(t, 1, m.from - 1)
        matched == SubStr(t, m.from, m.to)
        after == SubStr(t, m.to + 1, Len(t))
    IN  IF m.found
        THEN before \o GetSubstitution(replacement, matched, before, after) \o after
        ELSE t

\* `## ${section}\n\n${sectionContent}\n`
newSection(section, sectionContent) ==
    <<"#", "#", " ">> \o section \o <<"\n", "\n">> \o sectionContent \o <<"\n">>

\* the edit of the section branch: replace the match, or append
upsertSectionAlwaysAppends(existing, section, sectionContent) ==
    existing \o <<"\n">> \o newSection(section, sectionContent)

upsertSection(existing, section, sectionContent) ==
    IF RegExpExec(existing, sectionRegex(section)).found
    THEN StringReplace(existing, sectionRegex(section), newSection(section, sectionContent))
    ELSE existing \o <<"\n">> \o newSection(section, sectionContent)

-----------------------------------------------------------------------------
(* soul-a2a-tools.ts: the handler of soul.update *)

soulPathGlobal(m, sessionName) == join(m.GLOBAL_IDENTITY_DIR, "SOUL.md")
soulPath(m, sessionName) == join(join(m.SESSIONS_DIR, sessionName), "SOUL.md")

\* if (section && sectionContent)
sectionBranchSectionOnly(args) == Truthy(args.section)
sectionBranch(args) == Truthy(args.section) /\ Truthy(args.sectionContent)

\* if (content), checked before the section arguments
contentBranchUnlessSection(args) == Truthy(args.content) /\ ~sectionBranch(args)
contentBranch(args) == Truthy(args.content)

ReplacedEntirely == ToolResult(<<"SOUL.md replaced entirely">>)
SectionUpdated(section) == ToolResult(<<"SOUL.md section \"">> \o section \o <<"\" updated">>)
ProvideArguments == ToolResult(<<"Provide 'content' or 'section'+'sectionContent'">>)

\* existsSync(soulPath) ? readFileSync(soulPath, "utf-8") : default header;
\* the read throws when the file is there and cannot be read
readExisting(f, path) ==
    IF existsSync(f, path)
    THEN readFileSync(f, path)
    ELSE [ok |-> TRUE, data |-> DefaultDocument]

\* the document the section branch writes back, from the text it read
editedDocumentReread(f, path, existing, args) ==
    upsertSection(readExisting(f, path).data, args.section, args.sectionContent)
editedDocument(f, path, existing, args) ==
    upsertSection(existing, args.section, args.sectionContent)

\* the handler: the file system afterwards, what it returns or throws, the
\* document it edited and the write it made.  A write is taken to succeed.
soulUpdate(f, m, sessionName, args) ==
    LET path == soulPath(m, sessionName)
        read == readExisting(f, path)
        edited == editedDocument(f, path, read.data, args)
    IN  IF contentBranch(args)
        THEN [fs |-> writeFileSync(f, path, args.content),
              ret |-> Returned(ReplacedEntirely),
              existing |-> None,
              written |-> [path |-> path, data |-> args.content]]
        ELSE IF sectionBranch(args)
        THEN IF ~read.ok
             THEN [fs |-> f, ret |-> Threw, existing |-> None, written |-> NoWrite]
             ELSE [fs |-> writeFileSync(f, path, edited),
                   ret |-> Returned(SectionUpdated(args.section)),
                   existing |-> read.data,
                   written |-> [path |-> path, data |-> edited]]
        ELSE [fs |-> f, ret |-> Returned(ProvideArguments),
              existing |-> None, written |-> NoWrite]

-----------------------------------------------------------------------------
(* The documents, section names and bodies the calls are made with *)

Heading(name) == <<"#", "#", " ">> \o name

DocA == Heading(<<"a">>) \o <<"\n", "\n", "x", "\n">>
DocTAB ==
    <<"#", " ", "T", "\n", "\n">> \o Heading(<<"a">>) \o <<"\n", "\n", "x", "\n", "\n">>
    \o Heading(<<"b">>) \o <<"\n", "\n", "y", "\n">>
DocPrefix ==
    Heading(<<"a", "b">>) \o <<"\n", "\n", "x", "\n", "\n">>
    \o Heading(<<"a">>) \o <<"\n", "\n", "y", "\n">>
DocAB == Heading(<<"a", "b">>) \o <<"\n", "\n", "x", "\n">>
DocBlank == <<" ", "\n">>
DocGlobal == <<"#", " ", "G", "\n">>

GlobalFiles == {Absent, Unreadable(DocGlobal), FileOf(DocBlank), FileOf(DocGlobal)}
SessionFiles ==
    {Absent, Unreadable(DocA), FileOf(<<>>), FileOf(DocBlank),
     FileOf(DocA), FileOf(DocAB), FileOf(DocTAB), FileOf(DocPrefix)}

SectionNames == {<<"a">>, <<"A">>, <<"a", ".">>, <<"$", "$">>}
SectionBodies == {<<"z">>, <<"$", "&">>}
BodyWithHeading == <<"p", "\n", "#", "#", " ", "q">>
FullContent == <<"c", "\n">>

Args(c, s, b) == [content |-> c, section |-> s, sectionContent |-> b]

ArgChoices ==
    {Args(None, s, b) : s \in SectionNames, b \in SectionBodies}
    \cup {Args(<<>>, <<"a">>, <<"z">>), Args(None, <<"a">>, BodyWithHeading),
          Args(FullContent, None, None), Args(FullContent, <<"a">>, <<"z">>),
          Args(None, None, None), Args(None, <<"a">>, None), Args(None, None, <<"z">>),
          Args(None, <<"a">>, <<>>), Args(None, <<>>, <<"z">>), Args(<<>>, None, None)}

-----------------------------------------------------------------------------
(* The tools and the provider called one after another *)

NoResult ==
    [op |-> "none", session |-> "", args |-> NoArgs, outcome |-> "none", value |-> Null,
     resolved |-> NoResolved, existing |-> None, written |-> NoWrite,
     env |-> [WOPR_HOME |-> None, WOPR_GLOBAL_IDENTITY |-> None]]

InitLife ==
    /\ ctx = Null
    /\ cleanups = <<>>
    /\ host = [op |-> "none", prev |-> "none", ctxBefore |-> Null, pending |-> 0,
               registerContextProvider |-> 0, registerA2AServer |-> 0,
               sessionName |-> "", unregisterContextProvider |-> 0]
InitRace ==
    /\ pc = [p \in {1, 2} |-> "idle"]
    /\ local = [p \in {1, 2} |->
                  [args |-> NoArgs, existing |-> None, written |-> None,
                   readFirst |-> FALSE, writeNo |-> 0]]

Init ==
    /\ env = [WOPR_HOME |-> None, WOPR_GLOBAL_IDENTITY |-> None]
    /\ toolsMod = ModuleConstants(env)
    /\ providerMod = ModuleConstants(env)
    /\ \E g \in GlobalFiles, s \in SessionFiles :
         fs = [p \in Paths |->
                 IF p = GlobalPathOf(toolsMod) THEN g
                 ELSE IF p = SessionPathOf(toolsMod, "s1") THEN s
                 ELSE Absent]
    /\ result = NoResult
    /\ ncalls = 0
    /\ InitLife
    /\ InitRace

Get(sessionName) ==
    /\ ncalls < MaxCalls
    /\ LET r == soulGet(fs, toolsMod, sessionName)
       IN  result' = [op |-> "soul.get", session |-> sessionName, args |-> NoArgs,
                      outcome |-> r.ret.outcome, value |-> r.ret.value,
                      resolved |-> r.resolved, existing |-> None, written |-> NoWrite,
                      env |-> env]
    /\ ncalls' = ncalls + 1
    /\ UNCHANGED <<fs, env, toolsMod, providerMod, lifeVars, raceVars>>

Update(sessionName, args) ==
    /\ ncalls < MaxCalls
    /\ LET r == soulUpdate(fs, toolsMod, sessionName, args)
       IN  /\ r.written # NoWrite => Len(r.written.data) <= MaxDocLen
           /\ fs' = r.fs
           /\ result' = [op |-> "soul.update", session |-> sessionName, args |-> args,
                         outcome |-> r.ret.outcome, value |-> r.ret.value,
                         resolved |-> NoResolved, existing |-> r.existing,
                         written |-> r.written, env |-> env]
    /\ ncalls' = ncalls + 1
    /\ UNCHANGED <<env, toolsMod, providerMod, lifeVars, raceVars>>

GetContext(session) ==
    /\ ncalls < MaxCalls
    /\ LET r == getContext(fs, providerMod, session)
       IN  result' = [op |-> "getContext", session |-> session, args |-> NoArgs,
                      outcome |-> r.outcome, value |-> r.value,
                      resolved |-> NoResolved, existing |-> None, written |-> NoWrite,
                      env |-> env]
    /\ ncalls' = ncalls + 1
    /\ UNCHANGED <<fs, env, toolsMod, providerMod, lifeVars, raceVars>>

Next ==
    \/ \E sessionName \in SessionNames : Get(sessionName)
    \/ \E sessionName \in SessionNames, args \in ArgChoices : Update(sessionName, args)
    \/ \E session \in SessionNames : GetContext(session)

Spec == Init /\ [][Next]_vars

-----------------------------------------------------------------------------
(* The tools and the provider called while the environment changes *)

DocAlt == <<"#", " ", "H", "\n">>

\* the file a path holds at the start, if it holds one
FileAt(p) == IF p[1] \in {AltHome[1], AltGlobal[1]} THEN FileOf(DocAlt) ELSE FileOf(DocGlobal)

EnvPaths ==
    {GlobalPathOf(ModuleConstants(e)) : e \in EnvChoices}
    \cup {SessionPathOf(ModuleConstants(e), "s1") : e \in EnvChoices}

EnvArgChoices == {Args(FullContent, None, None), Args(None, <<"a">>, <<"z">>)}

\* the modules are imported under some environment; it may change afterwards
InitEnv ==
    /\ env \in EnvChoices
    /\ toolsMod = ModuleConstants(env)
    /\ providerMod = ModuleConstants(env)
    /\ \E present \in SUBSET EnvPaths :
         fs = [p \in Paths |-> IF p \in present THEN FileAt(p) ELSE Absent]
    /\ result = NoResult
    /\ ncalls = 0
    /\ InitLife
    /\ InitRace

\* process.env.WOPR_HOME / process.env.WOPR_GLOBAL_IDENTITY are set or unset
SetEnv(e) ==
    /\ e # env
    /\ env' = e
    /\ UNCHANGED <<fs, toolsMod, providerMod, result, ncalls, lifeVars, raceVars>>

NextEnv ==
    \/ \E e \in EnvChoices : SetEnv(e)
    \/ \E sessionName \in SessionNames : Get(sessionName)
    \/ \E sessionName \in SessionNames, args \in EnvArgChoices : Update(sessionName, args)
    \/ \E session \in SessionNames : GetContext(session)

SpecEnv == InitEnv /\ [][NextEnv]_vars

-----------------------------------------------------------------------------
(* index.ts: init and shutdown *)

\* the plugin contexts a host may pass to init: registerA2AServer and
\* unregisterContextProvider are optional, getSessions returns a list
PluginContexts ==
    [registerA2AServer : BOOLEAN, unregisterContextProvider : BOOLEAN,
     sessions : {<<>>, <<"">>, <<"s1">>, <<"s2", "s1">>}]

\* sessions[0] || "default"
firstSession(sessions) ==
    IF sessions # <<>> /\ sessions[1] # "" THEN sessions[1] ELSE "default"

\* the cleanup pushed by init; it reads the module's ctx when it runs
UnregisterCleanup == "unregisterContextProvider(soul)"

\* init: the module state afterwards and the calls made on the host
init(c, cl, pluginCtx) ==
    [ctx |-> pluginCtx,
     cleanups |-> Append(cl, UnregisterCleanup),
     registerContextProvider |-> 1,
     registerA2AServer |-> IF pluginCtx.registerA2AServer THEN 1 ELSE 0,
     sessionName |-> IF pluginCtx.registerA2AServer
                     THEN firstSession(pluginCtx.sessions) ELSE "",
     unregisterContextProvider |-> 0]

\* shutdown: nothing without a context; otherwise every pending cleanup runs
\* once, the list is emptied (splice(0)) and the context is dropped
shutdownKeepsCleanups(c, cl) ==
    IF c = Null
    THEN [ctx |-> c, cleanups |-> cl, registerContextProvider |-> 0,
          registerA2AServer |-> 0, sessionName |-> "", unregisterContextProvider |-> 0]
    ELSE [ctx |-> Null, cleanups |-> cl, registerContextProvider |-> 0,
          registerA2AServer |-> 0, sessionName |-> "",
          unregisterContextProvider |-> IF c.unregisterContextProvider THEN Len(cl) ELSE 0]

shutdown(c, cl) ==
    IF c = Null
    THEN [ctx |-> c, cleanups |-> cl, registerContextProvider |-> 0,
          registerA2AServer |-> 0, sessionName |-> "", unregisterContextProvider |-> 0]
    ELSE [ctx |-> Null, cleanups |-> <<>>, registerContextProvider |-> 0,
          registerA2AServer |-> 0, sessionName |-> "",
          unregisterContextProvider |-> IF c.unregisterContextProvider THEN Len(cl) ELSE 0]

\* the host after a lifecycle call: the call, the one before it, the context
\* and cleanups it found, and the calls it received
HostAfter(op, r) ==
    [op |-> op, prev |-> host.op, ctxBefore |-> ctx, pending |-> Len(cleanups),
     registerContextProvider |-> r.registerContextProvider,
     registerA2AServer |-> r.registerA2AServer,
     sessionName |-> r.sessionName,
     unregisterContextProvider |-> r.unregisterContextProvider]

PluginInit(pluginCtx) ==
    /\ ncalls < MaxLifeCalls
    /\ LET r == init(ctx, cleanups, pluginCtx)
       IN  /\ ctx' = r.ctx
           /\ cleanups' = r.cleanups
           /\ host' = HostAfter("init", r)
    /\ ncalls' = ncalls + 1
    /\ UNCHANGED <<fs, env, toolsMod, providerMod, result, raceVars>>

PluginShutdown ==
    /\ ncalls < MaxLifeCalls
    /\ LET r == shutdown(ctx, cleanups)
       IN  /\ ctx' = r.ctx
           /\ cleanups' = r.cleanups
           /\ host' = HostAfter("shutdown", r)
    /\ ncalls' = ncalls + 1
    /\ UNCHANGED <<fs, env, toolsMod, providerMod, result, raceVars>>

NextLife ==
    \/ \E pluginCtx \in PluginContexts : PluginInit(pluginCtx)
    \/ PluginShutdown

SpecLife == Init /\ [][NextLife]_vars

-----------------------------------------------------------------------------
(* soul.update run by two processes on the same session file.  Within one   *)
(* process the handler runs to completion (it has no await); two processes  *)
(* that share the sessions directory interleave between the read and the    *)
(* write of the section branch.                                             *)

Procs == {1, 2}
RaceSession == "s1"

WritesSoFar == Cardinality({q \in Procs : local[q].writeNo > 0})

\* the handler up to its first file write: the content branch writes, the
\* section branch reads the document, the fallback returns
RaceStart(p, args) ==
    /\ pc[p] = "idle"
    /\ LET path == soulPath(toolsMod, RaceSession)
           read == readExisting(fs, path)
       IN  IF contentBranch(args)
           THEN /\ fs' = writeFileSync(fs, path, args.content)
                /\ pc' = [pc EXCEPT ![p] = "done"]
                /\ local' = [local EXCEPT ![p] =
                       [args |-> args, existing |-> None, written |-> args.content,
                        readFirst |-> FALSE, writeNo |-> WritesSoFar + 1]]
           ELSE IF sectionBranch(args)
           THEN /\ fs' = fs
                /\ pc' = [pc EXCEPT ![p] = IF read.ok THEN "read" ELSE "threw"]
                /\ local' = [local EXCEPT ![p] =
                       [args |-> args,
                        existing |-> IF read.ok THEN read.data ELSE None,
                        written |-> None,
                        readFirst |-> read.ok /\ WritesSoFar = 0, writeNo |-> 0]]
           ELSE /\ fs' = fs
                /\ pc' = [pc EXCEPT ![p] = "done"]
                /\ local' = [local EXCEPT ![p] = [@ EXCEPT !.args = args]]
    /\ UNCHANGED <<env, toolsMod, providerMod, result, ncalls, lifeVars>>

\* the section branch from the edit to the write
RaceWrite(p) ==
    /\ pc[p] = "read"
    /\ LET path == soulPath(toolsMod, RaceSession)
           edited == editedDocument(fs, path, local[p].existing, local[p].args)
       IN  /\ Len(edited) <= MaxDocLen
           /\ fs' = writeFileSync(fs, path, edited)
           /\ local' = [local EXCEPT ![p] =
                  [@ EXCEPT !.written = edited, !.writeNo = WritesSoFar + 1]]
    /\ pc' = [pc EXCEPT ![p] = "done"]
    /\ UNCHANGED <<env, toolsMod, providerMod, result, ncalls, lifeVars>>

NextRace ==
    \/ \E p \in Procs, args \in ArgChoices : RaceStart(p, args)
    \/ \E p \in Procs : RaceWrite(p)

SpecRace == Init /\ [][NextRace]_vars

-----------------------------------------------------------------------------
(* What the claims speak of *)

GlobalFile == fs[GlobalPathOf(toolsMod)]
SessionFile(s) == fs[SessionPathOf(toolsMod, s)]

IsSectionUpdate ==
    /\ result.op = "soul.update"
    /\ result.outcome = "returned"
    /\ result.existing # None

\* the document the section update read, its section name and body, and the
\* document it wrote
D == result.existing
S == result.args.section
B == result.args.sectionContent
W == result.written.data

SameIgnoringCase(a, b) ==
    /\ Len(a) = Len(b)
    /\ \A k \in 1..Len(a) : Canonicalize(a[k]) = Canonicalize(b[k])

\* the positions of doc where a line that reads `## name` begins
HeadingLines(doc, name) ==
    {i \in 1..Len(doc) :
        /\ i = 1 \/ doc[i - 1] = "\n"
        /\ i + Len(name) + 2 <= Len(doc)
        /\ SameIgnoringCase(SubStr(doc, i, i + Len(name) + 2), Heading(name))
        /\ i + Len(name) + 2 = Len(doc) \/ doc[i + Len(name) + 3] = "\n"}

\* the end boundary of the section whose heading begins at i: the line break
\* before the next line that starts with `## `, or the position after the text
SectionEnd(doc, i) ==
    LET ends == {j \in (i + 3)..(Len(doc) + 1) :
                    j = Len(doc) + 1 \/ StartsWithAt(doc, j, <<"\n">> \o Heading(<<>>))}
    IN  CHOOSE j \in ends : \A k \in ends : j <= k

\* C1: soul.get resolves to the global path with tier global whenever the
\* global file exists, whether or not the session file exists, and to the
\* session tier only when the global file does not exist
C1_GlobalTierWins ==
    result.op = "soul.get" =>
        /\ GlobalFile.exists =>
             /\ result.resolved = [path |-> GlobalPathOf(toolsMod), exists |-> TRUE,
                                   isGlobal |-> TRUE]
             /\ result.outcome = "returned" =>
                  result.value.content[1].text = <<"[Source: ", "global", "]\n\n">>
                                                 \o GlobalFile.content
        /\ ~GlobalFile.exists =>
             /\ result.resolved = [path |-> SessionPathOf(toolsMod, result.session),
                                   exists |-> SessionFile(result.session).exists,
                                   isGlobal |-> FALSE]

C1_Witness ==
    /\ result.op = "soul.get"
    /\ GlobalFile.exists
    /\ SessionFile(result.session).exists
    /\ result.resolved.isGlobal
    /\ result.outcome = "returned"

\* C2: no call writes the global file: a call changes at most the session
\* file of the session the tool was built for, which is the path every write
\* of soul.update is made to
C2_GlobalNeverWritten ==
    [][/\ fs'[GlobalPathOf(toolsMod)] = fs[GlobalPathOf(toolsMod)]
       /\ \A p \in Paths : fs'[p] # fs[p] => p = SessionPathOf(toolsMod, result'.session)
       /\ (result' # result /\ result'.written # NoWrite) =>
            /\ result'.written.path = SessionPathOf(toolsMod, result'.session)
            /\ fs'[result'.written.path].content = result'.written.data]_vars

C2_Witness ==
    /\ result.op = "soul.update"
    /\ result.written # NoWrite
    /\ GlobalFile.exists
    /\ GlobalFile.content = DocGlobal
    /\ SessionFile(result.session).content = result.written.data

\* C3: when the document has exactly one `## S` heading, the section update
\* writes the text before the heading, then `## S`, the new body, and then the
\* text from the section's end boundary on, both unchanged
C3_ReplaceKeepsRest ==
    (IsSectionUpdate /\ Cardinality(HeadingLines(D, S)) = 1) =>
        LET i == CHOOSE k \in HeadingLines(D, S) : TRUE
        IN  W = SubStr(D, 1, i - 1) \o newSection(S, B)
                \o SubStr(D, SectionEnd(D, i), Len(D))

\* C4: when the document has no `## S` heading, the section update writes the
\* document followed by "\n## S\n\n<body>\n"
C4_AppendKeepsDocument ==
    (IsSectionUpdate /\ HeadingLines(D, S) = {}) =>
        W = D \o <<"\n">> \o newSection(S, B)

HasMeta(name) == \E k \in 1..Len(name) : name[k] \in RegexMeta

ExactHeadingLines(doc, name) ==
    {i \in HeadingLines(doc, name) : SubStr(doc, i, i + Len(name) + 2) = Heading(name)}

\* C5: a section name with regex metacharacters is taken literally: the
\* update replaces only under a heading that reads `## <name>`, and the
\* heading it writes reads `## <name>`, character for character
C5_MetaNamesLiteral ==
    (IsSectionUpdate /\ HasMeta(S)) =>
        /\ W # D \o <<"\n">> \o newSection(S, B) => HeadingLines(D, S) # {}
        /\ ExactHeadingLines(W, S) # {}

NonBlank(t) == \E k \in 1..Len(t) : t[k] \notin Whitespace
Usable(file) == file.exists /\ file.readable /\ NonBlank(file.content)

ProviderGlobalFile == fs[GlobalPathOf(providerMod)]
ProviderSessionFile(s) == fs[SessionPathOf(providerMod, s)]

\* C7: getContext never throws; it returns the "Soul (Global)" fragment with
\* location global iff the global file is usable, otherwise the session
\* fragment with location session iff the session file is usable, otherwise
\* null
C7_GetContextTiers ==
    result.op = "getContext" =>
        /\ result.outcome = "returned"
        /\ IF Usable(ProviderGlobalFile)
           THEN result.value = [content |-> <<"## Soul (Global)\n\n">>
                                            \o ProviderGlobalFile.content,
                                role |-> "system",
                                metadata |-> [source |-> "soul", priority |-> 8,
                                              location |-> "global"]]
           ELSE IF Usable(ProviderSessionFile(result.session))
           THEN result.value = [content |-> <<"## Soul\n\n">>
                                            \o ProviderSessionFile(result.session).content,
                                role |-> "system",
                                metadata |-> [source |-> "soul", priority |-> 8,
                                              location |-> "session"]]
           ELSE result.value = Null

\* the global file is there but cannot be read, and the session tier answers
C7_Witness ==
    /\ result.op = "getContext"
    /\ ProviderGlobalFile.exists
    /\ ~ProviderGlobalFile.readable
    /\ result.value # Null
    /\ result.value.metadata.location = "session"

\* C8: soul.update with no content and without section or without
\* sectionContent returns the text "Provide 'content' or
\* 'section'+'sectionContent'" in an envelope whose only field is content; it
\* does not throw and writes nothing
C8_MissingArgumentsAnswered ==
    (/\ result.op = "soul.update"
     /\ result.args.content = None
     /\ result.args.section = None \/ result.args.sectionContent = None) =>
        /\ result.outcome = "returned"
        /\ DOMAIN result.value = {"content"}
        /\ result.value.content = <<[type |-> "text",
               text |-> <<"Provide 'content' or 'section'+'sectionContent'">>]>>
        /\ result.written = NoWrite

C8_Witness ==
    /\ result.op = "soul.update"
    /\ result.args = Args(None, <<"a">>, None)
    /\ result.outcome = "returned"
    /\ result.value = ProvideArguments
    /\ SessionFile(result.session).exists

\* C9 as stated: an init that follows a shutdown registers the context
\* provider once and the A2A server once
C9_ReinitRegistersBoth ==
    (host.op = "init" /\ host.prev = "shutdown") =>
        /\ host.registerContextProvider = 1
        /\ host.registerA2AServer = 1

\* C9 amended: a shutdown without a context changes nothing and unregisters
\* nothing; a shutdown with a context runs each pending cleanup once and
\* leaves no context and no cleanup; an init registers the context provider
\* once, and the A2A server once when the host has registerA2AServer and not
\* otherwise
C9_ShutdownIdempotent ==
    /\ ctx = Null => cleanups = <<>>
    /\ host.op = "shutdown" =>
         /\ ctx = Null
         /\ cleanups = <<>>
         /\ host.registerContextProvider = 0
         /\ host.registerA2AServer = 0
         /\ host.ctxBefore = Null =>
              host.pending = 0 /\ host.unregisterContextProvider = 0
         /\ host.ctxBefore # Null =>
              host.unregisterContextProvider =
                  IF host.ctxBefore.unregisterContextProvider THEN host.pending ELSE 0
    /\ host.op = "init" =>
         /\ ctx # Null
         /\ Len(cleanups) = host.pending + 1
         /\ host.registerContextProvider = 1
         /\ host.registerA2AServer = IF ctx.registerA2AServer THEN 1 ELSE 0
         /\ host.unregisterContextProvider = 0
         /\ host.prev = "shutdown" => Len(cleanups) = 1

\* an init after a shutdown
C9_Witness ==
    /\ host.op = "init"
    /\ host.prev = "shutdown"
    /\ ncalls >= 3
    /\ host.registerContextProvider = 1
    /\ host.registerA2AServer = 1
    /\ Len(cleanups) = 1

\* both processes took the section branch and read the document before either
\* wrote
BothReadFirst ==
    /\ \A p \in Procs : pc[p] = "done" /\ local[p].readFirst /\ local[p].writeNo > 0
    /\ ~SameIgnoringCase(local[1].args.section, local[2].args.section)

LastWriter == CHOOSE p \in Procs : local[p].writeNo = 2
FirstWriter == CHOOSE p \in Procs : local[p].writeNo = 1

\* C10: when two processes update different sections and both read before
\* either writes, the file ends as what the last writer made of the document
\* both read, and a section only the first writer added is not in it
C10_LastWriterWins ==
    BothReadFirst =>
        LET final == fs[SessionPathOf(toolsMod, RaceSession)].content
            read == local[FirstWriter].existing
        IN  /\ local[LastWriter].existing = read
            /\ final = local[LastWriter].written
            /\ final = upsertSection(read, local[LastWriter].args.section,
                                     local[LastWriter].args.sectionContent)
            /\ HeadingLines(read, local[FirstWriter].args.section) = {} =>
                 HeadingLines(final, local[FirstWriter].args.section) = {}

\* the first writer appended its section, and the final file lacks it
C10_Witness ==
    /\ BothReadFirst
    /\ HeadingLines(local[FirstWriter].existing, local[FirstWriter].args.section) = {}
    /\ HeadingLines(local[FirstWriter].written, local[FirstWriter].args.section) # {}
    /\ HeadingLines(fs[SessionPathOf(toolsMod, RaceSession)].content,
                    local[FirstWriter].args.section) = {}

\* the paths the configuration in effect at the last call gives
ConfigAtCall == ModuleConstants(result.env)

\* C11 as stated: every call uses the overrides in effect at the time of the
\* call: soul.get resolves among, soul.update writes to, and getContext reads
\* the paths built from process.env as it is when the call is made
C11_ConfigPerCall ==
    /\ result.op = "soul.get" =>
         result.resolved.path \in {GlobalPathOf(ConfigAtCall),
                                   SessionPathOf(ConfigAtCall, result.session)}
    /\ (result.op = "soul.update" /\ result.written # NoWrite) =>
         result.written.path = SessionPathOf(ConfigAtCall, result.session)
    /\ result.op = "getContext" =>
         result.value = getContext(fs, ConfigAtCall, result.session).value

\* C11 amended: the configuration is resolved once, when the modules are
\* imported, and kept: every call uses the paths built from the overrides in
\* effect at import, whatever the overrides are at the time of the call
C11_ConfigFixedAtImport ==
    /\ toolsMod = ModuleConstants(env) /\ providerMod = ModuleConstants(env)
    /\ [][toolsMod' = toolsMod /\ providerMod' = providerMod]_vars
    /\ [](/\ result.op = "soul.get" =>
               result.resolved.path =
                   IF fs[GlobalPathOf(toolsMod)].exists
                   THEN GlobalPathOf(toolsMod)
                   ELSE SessionPathOf(toolsMod, result.session)
          /\ (result.op = "soul.update" /\ result.written # NoWrite) =>
               result.written.path = SessionPathOf(toolsMod, result.session)
          /\ result.op = "getContext" =>
               result.value = getContext(fs, providerMod, result.session).value)

\* a soul.get made after the global override changed: the file under the new
\* directory exists, and the call resolved to the directory of import time
C11_Witness ==
    /\ result.op = "soul.get"
    /\ GlobalPathOf(ConfigAtCall) # GlobalPathOf(toolsMod)
    /\ fs[GlobalPathOf(ConfigAtCall)].exists
    /\ ~fs[GlobalPathOf(toolsMod)].exists
    /\ result.resolved.path = SessionPathOf(toolsMod, result.session)

\* C12: a failed read is caught in every operation: soul.get, soul.update
\* and getContext return, none throws, and the tools answer with a text in
\* the envelope whose only field is content
C12_ReadFailureCaught ==
    /\ result.op \in {"soul.get", "soul.update", "getContext"} =>
         result.outcome = "returned"
    /\ (result.op \in {"soul.get", "soul.update"} /\ result.outcome = "returned") =>
         /\ DOMAIN result.value = {"content"}
         /\ result.value.content[1].type = "text"

\* a call that directly follows a soul.update which replaced the file of the
\* same session with content
FollowsReplace ==
    /\ ncalls' = ncalls + 1
    /\ result.op = "soul.update"
    /\ result.outcome = "returned"
    /\ result.value = ReplacedEntirely
    /\ result'.session = result.session

GetText(tier, content) == <<"[Source: ", tier, "]\n\n">> \o content

RepeatsSectionUpdate ==
    /\ ncalls' = ncalls + 1
    /\ result.op = "soul.update"
    /\ ~contentBranch(result.args)
    /\ sectionBranch(result.args)
    /\ result'.op = "soul.update"
    /\ result'.args = result.args
    /\ result'.session = result.session

\* t has one of the replacement patterns $$, $&, $` and $'
HasDollarPattern(t) ==
    \E k \in 1..(Len(t) - 1) : t[k] = "$" /\ t[k + 1] \in {"$", "&", Backtick, "'"}

\* t has a line that begins with `## `
HasHeadingLine(t) ==
    \E i \in 1..Len(t) : (i = 1 \/ t[i - 1] = "\n") /\ StartsWithAt(t, i, Heading(<<>>))

====
